---------------------------- MODULE Spec2Model ----------------------------
(***************************************************************************)
(* A model of cotat (src/cotat/cotat.py): main(date_str, nodes, edges)     *)
(* builds an undirected contact graph from a node table and an edge table, *)
(* adds "dummy" membership edges between members of the same group, sets   *)
(* the visual attributes, lays the graph out once and creates six tabs,    *)
(* each with its own copy of the node and edge data.  After the page is    *)
(* saved, the browser runs the two CustomJS callbacks (search, reset) on   *)
(* the node data of a tab.                                                 *)
(*                                                                         *)
(* Representation.                                                         *)
(*  - A table is a function from its index to rows; a row is a function    *)
(*    from column names to cells.  The node table carries the default      *)
(*    RangeIndex 0..n-1, which reset_index turns into the column id; the   *)
(*    code uses the positional index and the id interchangeably (lines     *)
(*    199, 218, 236).                                                      *)
(*  - nx.Graph is a pair (Gn, Ge): Gn maps a node to its attribute dict,   *)
(*    Ge maps an unordered pair {u, v} to the edge's attribute dict.  An   *)
(*    attribute dict is a function whose DOMAIN is the set of attributes   *)
(*    that are set; an attribute that was never set is not in the DOMAIN.  *)
(*  - Alphas are integers in units of 1/AlphaUnit, weights in units of     *)
(*    1/WeightUnit; a dash pattern is a sequence (<<>> solid, <<5,5>>).    *)
(*  - Python None is the string "None"; a cell read by JavaScript is       *)
(*    <<type, text>> so that "12" (a string) and 12 (a number) differ.     *)
(*  - The data of a tab has one cell per element and column.  A cell that  *)
(*    from_networkx fills with None is listed in nullNodes / nullEdges of  *)
(*    the tab and is not in the DOMAIN of the element's dict, so that a    *)
(*    missing number is never compared with a number.                      *)
(***************************************************************************)
EXTENDS Integers, Sequences, FiniteSets, TLC

VARIABLES pc,        \* position of the run: start, build, ..., saved | error
          entry,     \* the name the caller imported from cotat.cotat
          err,       \* the exception that ended the run, or "None"
          nodes,     \* the node table
          nodeCols,  \* its columns, in order
          edges,     \* the edge table (a sequence of rows)
          edgeCols,  \* its columns, in order
          Gn,        \* G.nodes: node -> attribute dict
          Ge,        \* G.edges: {u, v} -> attribute dict
          pos,       \* the layout: node -> position, empty before node_positions
          layouts,   \* what each call of nx.spring_layout read: edge -> weight
          tabs,      \* the panels created so far, in order
          events,    \* number of browser events handled
          lastEvent  \* the last browser event: kind, tab, value

vars == <<pc, entry, err, nodes, nodeCols, edges, edgeCols, Gn, Ge, pos,
          layouts, tabs, events, lastEvent>>

---------------------------------------------------------------------------
(* Bounds of the model *)

NumNodes == 3
MaxRows == 1
MaxEvents == 2

(* Program constants *)

AlphaUnit == 140
WeightUnit == 100
NodeSize == 9
FoundSize == 16
AlphaSteps == 15

None == "None"
Blue == "#65ADFF"
Red == "#DC0000"
Solid == << >>
Dashed == <<5, 5>>

Ids == 0 .. (NumNodes - 1)

\* groups = ['group_1', 'group_2', 'group_3']
groups == <<"group_1", "group_2", "group_3">>

\* num/den as an alpha, in units of 1/AlphaUnit
Alpha(num, den) == (AlphaUnit * num) \div den

\* num/den as a layout weight, in units of 1/WeightUnit
Weight(num, den) == (WeightUnit * num) \div den

\* np.linspace(1, 0.5, 15)[k]
to_alpha(k) == AlphaUnit - (k * (AlphaUnit \div 2)) \div (AlphaSteps - 1)

---------------------------------------------------------------------------
(* Dictionaries *)

\* d[a] = v
SetAttr(d, a, v) == [x \in (DOMAIN d) \cup {a} |-> IF x = a THEN v ELSE d[x]]

Min(S) == CHOOSE x \in S : \A y \in S : x <= y
Max(S) == CHOOSE x \in S : \A y \in S : x >= y

\* The elements of sequence s, in order, whose index is in 1..Len(s)
Range(s) == {s[i] : i \in DOMAIN s}

\* nx.set_node_attributes(G, values=v, name=a) with a scalar v
SetNodeAttribute(G, a, v) == [n \in DOMAIN G |-> SetAttr(G[n], a, v)]

\* nx.set_node_attributes(G, values=d, name=a) with a dict d: nodes of d
\* that are not in G are skipped
SetNodeAttributes(G, a, d) ==
  [n \in DOMAIN G |-> IF n \in DOMAIN d THEN SetAttr(G[n], a, d[n]) ELSE G[n]]

\* nx.get_edge_attributes(G, a): only the edges that carry a
GetEdgeAttributes(E, a) ==
  [e \in {x \in DOMAIN E : a \in DOMAIN E[x]} |-> E[e][a]]

\* nx.set_edge_attributes(G, values=d, name=a) with a dict d keyed by edge
SetEdgeAttributes(E, a, d) ==
  [e \in DOMAIN E |-> IF e \in DOMAIN d THEN SetAttr(E[e], a, d[e]) ELSE E[e]]

---------------------------------------------------------------------------
(* The inputs: the two tables handed to main *)

\* The window of the instructions text, in days: to_alpha has one step per day
Window == AlphaSteps - 1

CaseSamples == {"1", "2"}
DaySamples == {0, Window, Window + 1}

\* The group cells of one node: group_1, group_2, group_3
GroupRows == {<<"", "", "">>, <<"a", "a", "">>, <<"", "a", "a">>, <<"b", "", "a">>}

\* How the table stores the optional column case_number
CellTypes == {"absent", "str", "num"}

\* A cell as JavaScript sees it
Cell(type, c) == IF c = None THEN <<"null", None>> ELSE <<type, c>>

NodeColumns(type) ==
  <<"case", "date", "group_1", "group_2", "group_3">>
    \o (IF type = "absent" THEN << >> ELSE <<"case_number">>)

\* A row of the node table.  The cell date holds the test date as the number
\* of days between the test and the run; case_number, when the table has
\* it, repeats the case number as a string or as a number.
NodeRow(c, d, g, type) ==
  LET base == [case |-> c, date |-> d,
               group_1 |-> g[1], group_2 |-> g[2], group_3 |-> g[3]]
  IN  IF type = "absent" THEN base
      ELSE SetAttr(base, "case_number", Cell(type, c))

NodeTables(Cases, Days, GRows, type) ==
  {[n \in Ids |-> NodeRow(f[n].c, f[n].d, f[n].g, type)] :
     f \in [Ids -> [c : Cases, d : Days, g : GRows]]}

\* The edge table has the columns source and target ("plain"); a "typed"
\* table also labels its rows with dummy = 0 and edge_type = "contact"
EdgeColumns(schema) ==
  <<"source", "target">>
    \o (IF schema = "typed" THEN <<"dummy", "edge_type">> ELSE << >>)

EdgeRow(s, t, schema) ==
  LET base == [source |-> s, target |-> t]
  IN  IF schema = "typed"
      THEN SetAttr(SetAttr(base, "dummy", 0), "edge_type", "contact")
      ELSE base

EdgeRows(schema) ==
  {EdgeRow(p[1], p[2], schema) : p \in {q \in Ids \X Ids : q[1] # q[2]}}

\* The edge tables of one schema with at most k rows
EdgeTables(schema, k) ==
  UNION {[1 .. j -> EdgeRows(schema)] : j \in 0 .. k}

\* A node table together with its columns
NodeInputs(Cases, Days, GRows, Types) ==
  UNION {{[tbl |-> t, cols |-> NodeColumns(type)] :
            t \in NodeTables(Cases, Days, GRows, type)} : type \in Types}

\* An edge table of at most k rows together with its columns
EdgeInputs(Schemas, k) ==
  UNION {{[tbl |-> t, cols |-> EdgeColumns(schema)] :
            t \in EdgeTables(schema, k)} : schema \in Schemas}

\* One labelled contact
LabelledContacts ==
  {[tbl |-> <<r>>, cols |-> EdgeColumns("typed")] : r \in EdgeRows("typed")}

\* The contact between the first two nodes listed twice, in either direction
RepeatedContacts ==
  {[tbl |-> <<EdgeRow(p[1], p[2], "plain"), EdgeRow(q[1], q[2], "plain")>>,
    cols |-> EdgeColumns("plain")] :
     p \in {<<0, 1>>, <<1, 0>>}, q \in {<<0, 1>>, <<1, 0>>}}

\* One contact, between the first two nodes
OneContact == {[tbl |-> <<EdgeRow(0, 1, "plain")>>, cols |-> EdgeColumns("plain")]}

NoEvent == [kind |-> "none", tab |-> 0, value |-> "", changed |-> FALSE]

\* The state when main is called with one of the given tables
InitWith(NodeIn, EdgeIn) ==
  /\ pc = "start"
  /\ entry = None
  /\ err = None
  /\ \E n \in NodeIn : nodes = n.tbl /\ nodeCols = n.cols
  /\ \E e \in EdgeIn : edges = e.tbl /\ edgeCols = e.cols
  /\ Gn = << >>
  /\ Ge = << >>
  /\ pos = << >>
  /\ layouts = << >>
  /\ tabs = << >>
  /\ events = 0
  /\ lastEvent = NoEvent

---------------------------------------------------------------------------
(* The caller *)

\* The names cotat/cotat.py defines at module level
ModuleNames == {"main"}

\* The names callers import: main, and visualization (tests/test_cotat.py)
Callers == {"main", "visualization"}

\* from cotat.cotat import <name>; <name>(...)
Call(name) ==
  /\ pc = "start"
  /\ entry' = name
  /\ IF name \in ModuleNames
     THEN pc' = "build" /\ err' = err
     ELSE pc' = "error" /\ err' = "ImportError"
  /\ UNCHANGED <<nodes, nodeCols, edges, edgeCols, Gn, Ge, pos, layouts, tabs,
                 events, lastEvent>>

---------------------------------------------------------------------------
(* Graph construction *)

\* edges.set_index('edge')[a].to_dict(), then nx.set_edge_attributes: the
\* dict keeps one entry per (source, target) tuple, at the place of its
\* first row and with the value of its last row, and the entries are
\* written to G in that order
EdgeKeys(tbl) == {tbl[i]["edge"] : i \in DOMAIN tbl}
FirstRow(tbl, key) == Min({i \in DOMAIN tbl : tbl[i]["edge"] = key})
LastRow(tbl, key) == Max({i \in DOMAIN tbl : tbl[i]["edge"] = key})

EdgeDict(tbl, a) ==
  [e \in {{k[1], k[2]} : k \in EdgeKeys(tbl)} |->
     LET K == {k \in EdgeKeys(tbl) : {k[1], k[2]} = e}
         last == CHOOSE k \in K : \A k2 \in K : FirstRow(tbl, k2) <= FirstRow(tbl, k)
     IN  tbl[LastRow(tbl, last)][a]]

RECURSIVE SetEdgeColumns(_, _, _, _)
\* for attribute in edges.columns[:-1]: nx.set_edge_attributes(...)
SetEdgeColumns(E, tbl, cols, i) ==
  IF i > Len(cols) - 1 THEN E
  ELSE SetEdgeColumns(SetEdgeAttributes(E, cols[i], EdgeDict(tbl, cols[i])),
                      tbl, cols, i + 1)

RECURSIVE SetNodeColumns(_, _, _, _)
\* for attribute in nodes.columns[3:]: nx.set_node_attributes(...)
SetNodeColumns(G, tbl, cols, i) ==
  IF i > Len(cols) THEN G
  ELSE SetNodeColumns(
         SetNodeAttributes(G, cols[i],
           [id \in {tbl[r]["id"] : r \in DOMAIN tbl} |->
              tbl[CHOOSE r \in DOMAIN tbl : tbl[r]["id"] = id][cols[i]]]),
         tbl, cols, i + 1)

\* lines 171-209
BuildGraph ==
  /\ pc = "build"
  /\ LET nodes1 == [n \in DOMAIN nodes |-> SetAttr(nodes[n], "id", n)]
         nodeCols1 == <<"id">> \o nodeCols
         edges1 == IF Len(edges) > 0
                   THEN [i \in DOMAIN edges |->
                           SetAttr(edges[i], "edge",
                                   <<edges[i]["source"], edges[i]["target"]>>)]
                   ELSE edges
         edgeCols1 == IF Len(edges) > 0 THEN edgeCols \o <<"edge">> ELSE edgeCols
         G0 == [id \in {nodes1[n]["id"] : n \in DOMAIN nodes1} |-> << >>]
         G1 == SetNodeColumns(G0, nodes1, nodeCols1, 4)
         G2 == SetNodeAttribute(G1, "dummy", 0)
         G3 == SetNodeAttribute(G2, "edge_type", "contact")
         E0 == [e \in {{edges1[i]["source"], edges1[i]["target"]} :
                         i \in DOMAIN edges1} |-> << >>]
         E1 == IF Len(edges) > 0
               THEN SetEdgeColumns(E0, edges1, edgeCols1, 1)
               ELSE E0
     IN  /\ nodes' = nodes1
         /\ nodeCols' = nodeCols1
         /\ edges' = edges1
         /\ edgeCols' = edgeCols1
         /\ Gn' = G3
         /\ Ge' = E1
  /\ pc' = "dummy"
  /\ UNCHANGED <<entry, err, pos, layouts, tabs, events, lastEvent>>

\* GroupPairs without the test k != ''
GroupPairsOfAnyValue(tbl, group) ==
  {e \in SUBSET (DOMAIN tbl) :
     /\ Cardinality(e) = 2
     /\ \A i \in e, j \in e : tbl[i][group] = tbl[j][group]}

\* members = list(nodes[nodes[group] == k].index) for each value k with
\* k != '' and more than one row: the pairs i < j of one value
GroupPairs(tbl, group) ==
  {e \in SUBSET (DOMAIN tbl) :
     /\ Cardinality(e) = 2
     /\ \A i \in e, j \in e : tbl[i][group] = tbl[j][group]
     /\ \A i \in e : tbl[i][group] # "" /\ tbl[i][group] # None}

\* AddGroupEdges without the test not G.has_edge(members[i], members[j])
AddGroupEdgesUnchecked(E, tbl, group) ==
  [e \in (DOMAIN E) \cup GroupPairs(tbl, group) |->
     IF e \in GroupPairs(tbl, group)
     THEN SetAttr(SetAttr(IF e \in DOMAIN E THEN E[e] ELSE << >>, "dummy", 1),
                  "edge_type", group)
     ELSE E[e]]

\* One round of the loop over groups (lines 215-222)
AddGroupEdges(E, tbl, group) ==
  [e \in (DOMAIN E) \cup GroupPairs(tbl, group) |->
     IF e \in DOMAIN E THEN E[e] ELSE [dummy |-> 1, edge_type |-> group]]

RECURSIVE AddAllGroups(_, _, _)
AddAllGroups(E, tbl, k) ==
  IF k > Len(groups) THEN E
  ELSE AddAllGroups(AddGroupEdges(E, tbl, groups[k]), tbl, k + 1)

\* lines 211-222
AddDummyEdges ==
  /\ pc = "dummy"
  /\ Ge' = AddAllGroups(Ge, nodes, 1)
  /\ pc' = "node_attrs"
  /\ UNCHANGED <<entry, err, nodes, nodeCols, edges, edgeCols, Gn, pos, layouts,
                 tabs, events, lastEvent>>

---------------------------------------------------------------------------
(* Visual attributes *)

\* nodes['case'].apply(lambda x: '#65ADFF' if x is None else '#DC0000')
NodeColor(row) == IF row["case"] = None THEN Blue ELSE Red

\* The alpha every node is given (line 233)
NodeAlpha(row) == Alpha(1, 1)

\* lines 226-237
SetNodeStyle ==
  /\ pc = "node_attrs"
  /\ LET G1 == SetNodeAttribute(Gn, "size", NodeSize)
         G2 == SetNodeAttributes(G1, "alpha", [n \in DOMAIN nodes |-> NodeAlpha(nodes[n])])
         G3 == SetNodeAttributes(G2, "color", [n \in DOMAIN nodes |-> NodeColor(nodes[n])])
     IN  Gn' = G3
  /\ pc' = "edge_attrs"
  /\ UNCHANGED <<entry, err, nodes, nodeCols, edges, edgeCols, Ge, pos, layouts,
                 tabs, events, lastEvent>>

\* {0: zero, 1: one}[v]
DummyMap(v, zero, one) == CASE v = 0 -> zero [] v = 1 -> one

\* {k: {0: zero, 1: one}[v] for k, v in nx.get_edge_attributes(G, 'dummy').items()}
\* written to attribute a
ByDummy(E, a, zero, one) ==
  LET d == GetEdgeAttributes(E, "dummy")
  IN  SetEdgeAttributes(E, a, [e \in DOMAIN d |-> DummyMap(d[e], zero, one)])

\* edge_type_to_w
EdgeTypeToW(v) ==
  CASE v = "contact" -> Weight(1, 1)
    [] v \in Range(groups) -> Weight(5, 100)

\* {k: (hit if v == group else miss) for k, v in
\*  nx.get_edge_attributes(G, 'edge_type').items()} written to attribute a
ByEdgeType(E, a, group, hit, miss) ==
  LET d == GetEdgeAttributes(E, "edge_type")
  IN  SetEdgeAttributes(E, a, [e \in DOMAIN d |-> IF d[e] = group THEN hit ELSE miss])

\* lines 240-252
EdgeStyle(E) ==
  LET E1 == ByDummy(E, "alpha", Alpha(1, 1), Alpha(1, 10))
      E2 == ByDummy(E1, "dash", Solid, Dashed)
      E3 == ByDummy(E2, "weight", Weight(1, 1), Weight(5, 100))
      t  == GetEdgeAttributes(E3, "edge_type")
  IN  SetEdgeAttributes(E3, "weight", [e \in DOMAIN t |-> EdgeTypeToW(t[e])])

SetEdgeStyle ==
  /\ pc = "edge_attrs"
  /\ Ge' = EdgeStyle(Ge)
  /\ pc' = "layout"
  /\ UNCHANGED <<entry, err, nodes, nodeCols, edges, edgeCols, Gn, pos, layouts,
                 tabs, events, lastEvent>>

\* The rewrite of G before the tab 'All' (lines 260-263)
StyleAll(E) ==
  ByDummy(ByDummy(E, "alpha", Alpha(1, 1), Alpha(1, 10)),
          "weight", Weight(1, 1), Weight(1, 100))

\* The rewrite of G before the tab 'Contact Traces' (lines 267-270)
StyleContacts(E) ==
  ByDummy(ByDummy(E, "alpha", Alpha(1, 1), Alpha(0, 1)),
          "weight", Weight(1, 1), Weight(0, 1))

\* The rewrite of G before the tab 'Groups' (lines 274-277)
StyleGroups(E) ==
  ByDummy(ByDummy(E, "alpha", Alpha(0, 1), Alpha(2, 10)),
          "weight", Weight(0, 1), Weight(1, 1))

\* The rewrite of G before the tab of one group (lines 284-287)
StyleGroup(E, group) ==
  ByEdgeType(ByEdgeType(E, "alpha", group, Alpha(2, 10), Alpha(0, 1)),
             "weight", group, Weight(1, 1), Weight(0, 1))

---------------------------------------------------------------------------
(* Layout *)

\* The weight nx.spring_layout(G, weight='weight') reads from an edge: the
\* attribute, and 1 for an edge that has none
LayoutWeight(attrs) ==
  IF "weight" \in DOMAIN attrs THEN attrs["weight"] ELSE Weight(1, 1)

\* LayoutInput taken after the rewrite of G for the tab 'All'
LayoutInputAfterStyleAll(E) ==
  [e \in DOMAIN E |-> LayoutWeight(StyleAll(E)[e])]

\* What nx.spring_layout reads of the edges of G: each edge and its weight
LayoutInput(E) == [e \in DOMAIN E |-> LayoutWeight(E[e])]

\* nx.spring_layout(G, k=0.13, weight='weight', seed=1, iterations=150).  The
\* coordinates are kept symbolic: the position of node n in the run-th layout.
SpringLayout(N, run) == [n \in DOMAIN N |-> [node |-> n, layout |-> run]]

\* v[0] and v[1] of a position v
XOf(v) == <<"x", v>>
YOf(v) == <<"y", v>>

\* node_positions(G), lines 23-31
NodePositions ==
  /\ pc = "layout"
  /\ layouts' = Append(layouts, LayoutInput(Ge))
  /\ LET p == SpringLayout(Gn, Len(layouts'))
     IN  /\ pos' = p
         /\ nodes' = [n \in DOMAIN nodes |->
                        SetAttr(SetAttr(nodes[n], "x", XOf(p[nodes[n]["id"]])),
                                "y", YOf(p[nodes[n]["id"]]))]
         /\ nodeCols' = nodeCols \o <<"x", "y">>
  /\ pc' = "tab_all"
  /\ UNCHANGED <<entry, err, edges, edgeCols, Gn, Ge, tabs, events, lastEvent>>

---------------------------------------------------------------------------
(* Tabs *)

\* add_case_labels: one label per row whose case is not missing
CaseLabels(tbl) ==
  [n \in {i \in DOMAIN tbl : tbl[i]["case"] # None} |->
     [x |-> tbl[n]["x"], y |-> tbl[n]["y"], text |-> tbl[n]["case"]]]

\* The attributes whose values are lists: dash (lines 242-243)
ListAttrs == {"dash"}

\* The attributes that some element of D (the nodes of G, or its edges) carries:
\* from_networkx makes one column of each
AttrKeys(D) == UNION {DOMAIN D[x] : x \in DOMAIN D}

\* from_networkx(G, pos), line 53, for the nodes of G or for its edges: every
\* element gets a cell in every column.  An element that lacks the attribute
\* gets [] in a column of lists and None in any other column.
from_networkx(D) ==
  [x \in DOMAIN D |->
     [a \in {k \in AttrKeys(D) : k \in DOMAIN D[x] \/ k \in ListAttrs} |->
        IF a \in DOMAIN D[x] THEN D[x][a] ELSE << >>]]

\* The cells of from_networkx(D) that hold None
NullCells(D) ==
  [x \in DOMAIN D |-> {a \in AttrKeys(D) : a \notin DOMAIN D[x] /\ a \notin ListAttrs}]

\* create_plot(title, tab_name, G, pos): from_networkx copies the attributes G
\* has at this moment into the data sources of the new panel
CreatePlot(tab_name, N, E, p, tbl) ==
  [name |-> tab_name,
   nodes |-> from_networkx(N), nullNodes |-> NullCells(N),
   edges |-> from_networkx(E), nullEdges |-> NullCells(E),
   pos |-> p, labels |-> CaseLabels(tbl)]

\* lines 260-265
TabAll ==
  /\ pc = "tab_all"
  /\ Ge' = StyleAll(Ge)
  /\ tabs' = Append(tabs, CreatePlot("All", Gn, Ge', pos, nodes))
  /\ pc' = "tab_contacts"
  /\ UNCHANGED <<entry, err, nodes, nodeCols, edges, edgeCols, Gn, pos, layouts,
                 events, lastEvent>>

\* lines 267-272
TabContacts ==
  /\ pc = "tab_contacts"
  /\ Ge' = StyleContacts(Ge)
  /\ tabs' = Append(tabs, CreatePlot("Contact Traces", Gn, Ge', pos, nodes))
  /\ pc' = "tab_groups"
  /\ UNCHANGED <<entry, err, nodes, nodeCols, edges, edgeCols, Gn, pos, layouts,
                 events, lastEvent>>

\* lines 274-281
TabGroups ==
  /\ pc = "tab_groups"
  /\ Ge' = StyleGroups(Ge)
  /\ tabs' = Append(tabs, CreatePlot("Groups", Gn, Ge', pos, nodes))
  /\ pc' = "tab_group"
  /\ UNCHANGED <<entry, err, nodes, nodeCols, edges, edgeCols, Gn, pos, layouts,
                 events, lastEvent>>

\* The tabs created before the loop over groups: All, Contact Traces, Groups
FixedTabs == <<"All", "Contact Traces", "Groups">>

\* One round of the loop of lines 283-289
TabGroup ==
  /\ pc = "tab_group"
  /\ LET k == Len(tabs) - Len(FixedTabs) + 1
     IN  /\ Ge' = StyleGroup(Ge, groups[k])
         /\ tabs' = Append(tabs, CreatePlot(groups[k], Gn, Ge', pos, nodes))
         /\ pc' = IF k = Len(groups) THEN "save" ELSE "tab_group"
  /\ UNCHANGED <<entry, err, nodes, nodeCols, edges, edgeCols, Gn, pos, layouts,
                 events, lastEvent>>

\* lines 291-295
Save ==
  /\ pc = "save"
  /\ pc' = "saved"
  /\ UNCHANGED <<entry, err, nodes, nodeCols, edges, edgeCols, Gn, Ge, pos, layouts,
                 tabs, events, lastEvent>>

---------------------------------------------------------------------------
(* The browser: the CustomJS callbacks of one tab act on its node data *)

\* What the user may type into the search box
SearchVals == CaseSamples \cup {"9"}

\* JsReset without the write to size
JsResetAlphaOnly(src) ==
  [i \in DOMAIN src |-> SetAttr(src[i], "alpha", Alpha(1, 1))]

\* button_code (lines 104-113)
JsReset(src) ==
  [i \in DOMAIN src |-> SetAttr(SetAttr(src[i], "alpha", Alpha(1, 1)), "size", NodeSize)]

\* text_code (lines 115-136).  source.data["case_number"] is undefined when no
\* node has the attribute, and case_numbers.includes then throws before any
\* write; this.value is a string, and includes compares without conversion.
JsSearch(src, value) ==
  IF \A i \in DOMAIN src : "case_number" \notin DOMAIN src[i]
  THEN src
  ELSE LET hits == {i \in DOMAIN src : src[i]["case_number"] = <<"str", value>>}
       IN  IF hits = {} THEN src
           ELSE [i \in DOMAIN src |->
                   IF i = Min(hits)
                   THEN SetAttr(SetAttr(src[i], "alpha", Alpha(1, 1)), "size", FoundSize)
                   ELSE SetAttr(SetAttr(src[i], "alpha", Alpha(4, 10)), "size", NodeSize)]

Reset(t) ==
  /\ pc = "saved"
  /\ events < MaxEvents
  /\ tabs' = [tabs EXCEPT ![t].nodes = JsReset(@)]
  /\ events' = events + 1
  /\ lastEvent' = [kind |-> "reset", tab |-> t, value |-> "",
                   changed |-> tabs' # tabs]
  /\ UNCHANGED <<pc, entry, err, nodes, nodeCols, edges, edgeCols, Gn, Ge, pos, layouts>>

Search(t, value) ==
  /\ pc = "saved"
  /\ events < MaxEvents
  /\ tabs' = [tabs EXCEPT ![t].nodes = JsSearch(@, value)]
  /\ events' = events + 1
  /\ lastEvent' = [kind |-> "search", tab |-> t, value |-> value,
                   changed |-> tabs' # tabs]
  /\ UNCHANGED <<pc, entry, err, nodes, nodeCols, edges, edgeCols, Gn, Ge, pos, layouts>>

---------------------------------------------------------------------------
(* Specifications *)

\* The run of main
NextMain ==
  \/ \E name \in Callers : Call(name)
  \/ BuildGraph
  \/ AddDummyEdges
  \/ SetNodeStyle
  \/ SetEdgeStyle
  \/ NodePositions
  \/ TabAll
  \/ TabContacts
  \/ TabGroups
  \/ TabGroup
  \/ Save

\* The run of main, then the user in the browser
Next ==
  \/ NextMain
  \/ \E t \in DOMAIN tabs : Reset(t)
  \/ \E t \in DOMAIN tabs, value \in SearchVals : Search(t, value)

\* Node tables that vary in cases and dates; no contact or one
Init ==
  InitWith(NodeInputs({None} \cup CaseSamples, DaySamples, {<<"a", "", "">>}, {"absent"}),
           EdgeInputs({"plain"}, 0) \cup OneContact)

Spec == Init /\ [][NextMain]_vars

\* Tables that vary in group membership and in contacts
InitGraph ==
  InitWith(NodeInputs({"1"}, {0}, GroupRows, {"absent"}),
           EdgeInputs({"plain"}, MaxRows) \cup LabelledContacts \cup RepeatedContacts)

SpecGraph == InitGraph /\ [][NextMain]_vars

\* Node tables that vary in case numbers and in the column case_number
InitSearch ==
  InitWith(NodeInputs({None} \cup CaseSamples, {0}, {<<"", "", "">>}, CellTypes),
           OneContact)
SpecSearch == InitSearch /\ [][Next]_vars

---------------------------------------------------------------------------
(* Vocabulary of the properties *)

\* The pairs of nodes the edge table joins
ContactPairs == {{edges[i]["source"], edges[i]["target"]} : i \in DOMAIN edges}

\* Nodes i and j carry the same non-empty value in the group column g
Shares(i, j, g) == nodes[i][g] = nodes[j][g] /\ nodes[i][g] # ""

\* The places in the group list of the groups that i and j share
SharedGroups(i, j) == {k \in DOMAIN groups : Shares(i, j, groups[k])}

\* An attribute dict carries attribute a with value v
AttrIs(attrs, a, v) == a \in DOMAIN attrs /\ attrs[a] = v

\* A synthetic membership edge
IsMembership(attrs) == AttrIs(attrs, "dummy", 1)

\* Graph construction (lines 195-222) is over
Constructed == pc \in {"node_attrs", "edge_attrs", "layout", "tab_all",
                       "tab_contacts", "tab_groups", "tab_group", "save", "saved"}

\* The node attributes size, alpha and color are set (lines 226-237)
Styled == Constructed /\ pc # "node_attrs"

\* The date cell of a row is the number of days between the test and the run
InWindow(row) == row["date"] <= Window

---------------------------------------------------------------------------
(* C1: after graph construction, any two distinct nodes that carry the same *)
(* non-empty value in a group column are joined by an edge of G, and an    *)
(* edge with dummy = 1 joins only two distinct nodes that share a          *)
(* non-empty value in some group column.                                   *)
C1_MembersJoined ==
  Constructed =>
    /\ \A k \in DOMAIN groups : \A i \in Ids, j \in Ids :
         (i # j /\ Shares(i, j, groups[k])) => {i, j} \in DOMAIN Ge
    /\ \A e \in DOMAIN Ge :
         IsMembership(Ge[e]) =>
           \E i \in Ids, j \in Ids :
             i # j /\ e = {i, j} /\ SharedGroups(i, j) # {}

\* Three members of one group, two of them already joined by a contact
C1_Witness ==
  /\ pc = "saved"
  /\ \E k \in DOMAIN groups : \E i \in Ids, j \in Ids, l \in Ids :
       /\ Cardinality({i, j, l}) = 3
       /\ Shares(i, j, groups[k]) /\ Shares(j, l, groups[k])
       /\ {i, j} \in ContactPairs
       /\ IsMembership(Ge[{i, l}]) /\ IsMembership(Ge[{j, l}])
       /\ ~IsMembership(Ge[{i, j}])

---------------------------------------------------------------------------
(* C2: a node is red exactly when it is a positive case whose test date    *)
(* lies within the window; every other node is blue.                       *)
C2_RedIffRecentCase ==
  Styled =>
    \A n \in DOMAIN Gn :
      AttrIs(Gn[n], "color",
             IF nodes[n]["case"] # None /\ InWindow(nodes[n]) THEN Red ELSE Blue)

---------------------------------------------------------------------------
(* C3: the alpha of a positive case is 1 for a test today, 0.5 for a test  *)
(* two weeks ago, and of two positive cases within the window the one      *)
(* tested longer ago has the strictly smaller alpha.                       *)
C3_AlphaFadesWithAge ==
  Styled =>
    LET Positive == {n \in DOMAIN Gn : nodes[n]["case"] # None}
    IN  /\ \A n \in Positive :
             /\ nodes[n]["date"] = 0 => AttrIs(Gn[n], "alpha", to_alpha(0))
             /\ nodes[n]["date"] = Window => AttrIs(Gn[n], "alpha", to_alpha(Window))
        /\ \A n \in Positive, m \in Positive :
             (InWindow(nodes[n]) /\ InWindow(nodes[m])
                /\ nodes[n]["date"] > nodes[m]["date"])
               => Gn[n]["alpha"] < Gn[m]["alpha"]

---------------------------------------------------------------------------
(* C4: in every tab every edge has a dash value: solid for an edge that    *)
(* comes from the edge table, dashed for a membership edge.                *)
C4_DashByKind ==
  \A t \in DOMAIN tabs : \A e \in DOMAIN tabs[t].edges :
    AttrIs(tabs[t].edges[e], "dash", IF e \in ContactPairs THEN Solid ELSE Dashed)

---------------------------------------------------------------------------
(* C5: the edge alphas each tab captures: All 1 / 0.1, Contact Traces      *)
(* 1 / 0, Groups 0 / 0.2 for contact / membership edges; in the tab of     *)
(* group g 0.2 for the edges whose edge_type is g and 0 for every other    *)
(* edge, a contact edge included.                                          *)
C5_TabAlphas ==
  \A t \in DOMAIN tabs : \A e \in DOMAIN tabs[t].edges :
    LET a == tabs[t].edges[e]
        contact == e \in ContactPairs
    IN  /\ tabs[t].name = "All" =>
             AttrIs(a, "alpha", IF contact THEN Alpha(1, 1) ELSE Alpha(1, 10))
        /\ tabs[t].name = "Contact Traces" =>
             AttrIs(a, "alpha", IF contact THEN Alpha(1, 1) ELSE Alpha(0, 1))
        /\ tabs[t].name = "Groups" =>
             AttrIs(a, "alpha", IF contact THEN Alpha(0, 1) ELSE Alpha(2, 10))
        /\ tabs[t].name \in Range(groups) =>
             AttrIs(a, "alpha",
                    IF ~contact /\ AttrIs(a, "edge_type", tabs[t].name)
                    THEN Alpha(2, 10) ELSE Alpha(0, 1))

---------------------------------------------------------------------------
(* C6: after a search, in some tab, for the case number of a node of that  *)
(* tab's node data, that node has size 16 and alpha 1 and every other node *)
(* of the tab size 9 and alpha 0.4; at most one node of a tab has size 16. *)
C6_SearchEnlargesCase ==
  /\ (pc = "saved" /\ lastEvent.kind = "search") =>
       LET src == tabs[lastEvent.tab].nodes
       IN  \A n \in DOMAIN src :
             nodes[n]["case"] = lastEvent.value =>
               /\ AttrIs(src[n], "size", FoundSize)
               /\ AttrIs(src[n], "alpha", Alpha(1, 1))
               /\ \A m \in (DOMAIN src) \ {n} :
                    AttrIs(src[m], "size", NodeSize) /\ AttrIs(src[m], "alpha", Alpha(4, 10))
  /\ \A t \in DOMAIN tabs :
       Cardinality({n \in DOMAIN tabs[t].nodes :
                      AttrIs(tabs[t].nodes[n], "size", FoundSize)}) <= 1

---------------------------------------------------------------------------
(* C7: after Reset every node of the tab has size 9 and alpha 1, the node  *)
(* data of the tab is what it was when the tab was created (the attributes *)
(* of G's nodes, no other field changed), and a second Reset changes       *)
(* nothing.                                                                *)
C7_ResetRestores ==
  (pc = "saved" /\ lastEvent.kind = "reset") =>
    LET src == tabs[lastEvent.tab].nodes
    IN  /\ \A n \in DOMAIN src :
             AttrIs(src[n], "size", NodeSize) /\ AttrIs(src[n], "alpha", Alpha(1, 1))
        /\ src = Gn
        /\ JsReset(src) = src

\* A Reset that undid a search that had found its case
C7_Witness ==
  /\ pc = "saved"
  /\ lastEvent.kind = "reset"
  /\ lastEvent.changed

---------------------------------------------------------------------------
(* C8: the entry point visualization(title, output file, nodes, edges,     *)
(* start, end, groups) runs without raising an error.                      *)
C8_VisualizationRuns ==
  entry = "visualization" => (err = None /\ pc # "error")

---------------------------------------------------------------------------
(* C9: G has one edge per unordered pair (Ge is keyed by the pair).  A     *)
(* pair joined by a contact is never made a membership edge and keeps the  *)
(* source and target of a row of the edge table, also when the two nodes   *)
(* share a group; a pair without contact that shares groups is one         *)
(* membership edge whose edge_type is the first shared group of the group  *)
(* list, and of the group tabs only that group's tab shows it.             *)
C9_OneEdgePerPair ==
  Constructed =>
    /\ \A e \in ContactPairs :
         /\ e \in DOMAIN Ge
         /\ ~IsMembership(Ge[e])
         /\ \E r \in DOMAIN edges :
              /\ e = {edges[r]["source"], edges[r]["target"]}
              /\ AttrIs(Ge[e], "source", edges[r]["source"])
              /\ AttrIs(Ge[e], "target", edges[r]["target"])
         /\ "edge_type" \in DOMAIN Ge[e] => Ge[e]["edge_type"] = "contact"
    /\ \A i \in Ids, j \in Ids :
         (i # j /\ {i, j} \notin ContactPairs /\ SharedGroups(i, j) # {}) =>
           /\ {i, j} \in DOMAIN Ge
           /\ IsMembership(Ge[{i, j}])
           /\ AttrIs(Ge[{i, j}], "edge_type", groups[Min(SharedGroups(i, j))])
           /\ \A t \in DOMAIN tabs :
                tabs[t].name \in Range(groups) =>
                  AttrIs(tabs[t].edges[{i, j}], "alpha",
                         IF tabs[t].name = groups[Min(SharedGroups(i, j))]
                         THEN Alpha(2, 10) ELSE Alpha(0, 1))

\* A contact between two members of one group, and a pair without contact
\* that shares two groups
C9_Witness ==
  /\ pc = "saved"
  /\ \E e \in ContactPairs : \E i \in e, j \in e : i # j /\ SharedGroups(i, j) # {}
  /\ \E i \in Ids, j \in Ids :
       /\ i # j
       /\ {i, j} \notin ContactPairs
       /\ Cardinality(SharedGroups(i, j)) > 1

---------------------------------------------------------------------------
(* C10: no tab exists before the layout and the layout is computed once,   *)
(* from the graph with all its membership edges, reading weight 1 on every *)
(* contact edge and 0.05 on every membership edge; every tab holds these   *)
(* positions, and a case label sits at the position of its node.           *)
C10_LayoutOnce ==
  /\ pos = << >> => tabs = << >>
  /\ (pc \in {"start", "error", "build", "dummy", "node_attrs", "edge_attrs", "layout"})
       => (pos = << >> /\ layouts = << >>)
  /\ pos # << >> =>
       /\ Len(layouts) = 1
       /\ DOMAIN layouts[1] = DOMAIN Ge
       /\ \A i \in Ids, j \in Ids :
            (i # j /\ SharedGroups(i, j) # {}) => {i, j} \in DOMAIN layouts[1]
       /\ \A e \in DOMAIN layouts[1] :
            layouts[1][e] = IF e \in ContactPairs THEN Weight(1, 1) ELSE Weight(5, 100)
       /\ pos = SpringLayout(Gn, 1)
       /\ \A t \in DOMAIN tabs :
            /\ tabs[t].pos = pos
            /\ \A n \in DOMAIN tabs[t].labels :
                 /\ tabs[t].labels[n].x = XOf(tabs[t].pos[n])
                 /\ tabs[t].labels[n].y = YOf(tabs[t].pos[n])

\* All six tabs exist, G has a contact and a membership edge, and the last
\* rewrite left G with weights that are not the weights the layout read
C10_Witness ==
  /\ pc = "saved"
  /\ Len(tabs) = Len(FixedTabs) + Len(groups)
  /\ \E e \in DOMAIN Ge : e \in ContactPairs
  /\ \E e \in DOMAIN Ge : IsMembership(Ge[e]) /\ Ge[e]["weight"] # layouts[1][e]
  /\ \E t \in DOMAIN tabs : tabs[t].labels # << >>

=============================================================================
